---- MODULE Spec2Model ----
(***************************************************************************)
(* Clipboard bridge between a Wayland clipboard and an X11 clipboard       *)
(* (src/main.go).  The model covers the configuration-driven daemon: the   *)
(* endpoint adapters (getWaylandClipboard, getX11Clipboard,                *)
(* setWaylandClipboard, setX11Clipboard), the digest, and syncClipboards,  *)
(* together with the environment that owns the two clipboards: other       *)
(* programs change them at any moment, also while a cycle waits for one of *)
(* its external tools, and the tools wl-paste, wl-copy and xclip may fail  *)
(* or time out.                                                            *)
(* It also covers the process around the engine: main up to the call of   *)
(* start (tool lookup, LoadConfig, NewClipboardManager), the logger, and   *)
(* the loop of start with its ticker and its signal channel; and the       *)
(* fixed-constant variant of the daemon.                                   *)
(*                                                                         *)
(* A clipboard content is a finite sequence of characters; the Go string   *)
(* "ab" is <<"a", "b">> and the empty string is <<>>.                      *)
(***************************************************************************)
EXTENDS Naturals, Sequences, FiniteSets, TLC

VARIABLES
    wl,               \* content held by the Wayland clipboard
    x11,              \* content held by the X11 clipboard
    lastWaylandHash,  \* ClipboardManager.lastWaylandHash
    lastX11Hash,      \* ClipboardManager.lastX11Hash
    pc,               \* position of the process in main, start and syncClipboards
    locals,           \* the locals of the cycle in execution
    cur,              \* history: the cycle in execution
    prev,             \* history: summary of the cycles completed so far
    startup,          \* history: what the clipboards held when the first cycle began
    ext,              \* history: endpoints changed externally since the last cycle began
    unseen,           \* history: endpoints whose content no cycle has read successfully
    stable,           \* environment mode: no external change, every tool succeeds
    target,           \* history: the content of the change that opened the stable mode
    rd,               \* the last call of a read adapter on its own (ReadSpec)
    exitCode,         \* exit status of the process: NoExit while it runs, else {status}
    env,              \* what main finds at startup: tools, configuration files, log file
    config,           \* the Config main obtained
    manager,          \* the fields of the ClipboardManager that main constructed
    lines,            \* the log lines the logger has printed
    ticks,            \* number of ticks buffered in ticker.C
    sigs,             \* number of signals buffered in sigChan
    running,          \* number of cycles of syncClipboards in execution
    logClosed,        \* the log file has been closed
    hist,             \* history: what happened around the delivery of a signal
    lastWayland,      \* fixed-constant variant: lastWayland of its main
    lastX11,          \* fixed-constant variant: lastX11 of its main
    fed,              \* the read results of the last cycle fed to both variants
    issued            \* the writes each variant made in that cycle

\* The variables of the comparison of the two variants of the daemon.
variantVars == <<lastWayland, lastX11, fed, issued>>

\* The variables of the process around the engine: main, start and the logger.
procVars == <<exitCode, env, config, manager, lines, ticks, sigs, running,
              logClosed, hist>>

\* The variables of the engine's history and of its environment's mode.
engineHist == <<cur, prev, startup, ext, unseen, stable, target, rd>>

vars == <<wl, x11, lastWaylandHash, lastX11Hash, pc, locals, cur, prev, startup,
          ext, unseen, stable, target, rd, exitCode, env, config, manager,
          lines, ticks, sigs, running, logClosed, hist, lastWayland, lastX11,
          fed, issued>>

----------------------------------------------------------------------------
(* Bounds of the model.                                                    *)

\* Config.Timeouts.MaxClipboardSize, scaled down (default 52428800).
maxClipboardSize == 2

\* Longest content another program puts on a clipboard.
MaxContentLen == 2

\* Longest output of a reading tool in ReadSpec.
MaxOutputLen == 3

\* The number of cycles the history of Spec follows.
MaxCycles == 2

Alphabet == {"a", "b"}

\* The character wl-paste appends to a text content.
Newline == "\n"

RECURSIVE SeqsOfLen(_, _)
SeqsOfLen(chars, n) ==
    IF n = 0 THEN {<<>>}
    ELSE {Append(s, ch) : s \in SeqsOfLen(chars, n - 1), ch \in chars}

SeqsUpTo(chars, n) == UNION {SeqsOfLen(chars, k) : k \in 0..n}

\* The contents other programs put on a clipboard: the empty content, the
\* one-character contents, and the runs of "a" of every length up to
\* MaxContentLen.  The code measures a content and compares digests, so
\* contents of different lengths and different contents of one length are the
\* cases there are.
Contents ==
    {c \in SeqsUpTo(Alphabet, MaxContentLen) :
        Len(c) > 1 => \A i \in 1..Len(c) : c[i] = "a"}

\* What a reading tool can print.
ToolOutputs == SeqsUpTo(Alphabet \cup {Newline}, MaxOutputLen)

Endpoints == {"wayland", "x11"}

----------------------------------------------------------------------------
(* The digest.  sha256.Sum256 printed with %x, tabulated for the contents  *)
(* over Alphabet and Newline of length at most 3.                          *)

sha256Hex ==
    (<<>> :> "e3b0c44298fc1c149afbf4c8996fb92427ae41e4649b934ca495991b7852b855") @@
    (<<"a">> :> "ca978112ca1bbdcafac231b39a23dc4da786eff8147c4e72b9807785afee48bb") @@
    (<<"b">> :> "3e23e8160039594a33894f6564e1b1348bbd7a0088d42c4acb73eeaed59c009d") @@
    (<<Newline>> :> "01ba4719c80b6fe911b091a7c05124b64eeece964e09c058ef8f9805daca546b") @@
    (<<"a", "a">> :> "961b6dd3ede3cb8ecbaacbd68de040cd78eb2ed5889130cceb4c49268ea4d506") @@
    (<<"a", "b">> :> "fb8e20fc2e4c3f248c60c39bd652f3c1347298bb977b8b4d5903b85055620603") @@
    (<<"a", Newline>> :> "87428fc522803d31065e7bce3cf03fe475096631e5e07bbd7a0fde60c4cf25c7") @@
    (<<"b", "a">> :> "970f519c2cadbcefb1e81694f904bc6229dd2a8300e98c6d0d4fc4bfca584140") @@
    (<<"b", "b">> :> "3b64db95cb55c763391c707108489ae18b4112d783300de38e033b4c98c3deaf") @@
    (<<"b", Newline>> :> "0263829989b6fd954f72baaf2fc64bc2e2f01d692d4de72986ea808f6e99813f") @@
    (<<Newline, "a">> :> "7361a6f4b374745deaf896ac72887d55e04107d1a1ff14e5e4d829fb47e82426") @@
    (<<Newline, "b">> :> "5e79ec9f8842ea69eb2011042d321d822720649ec910261740917eb88051c726") @@
    (<<Newline, Newline>> :> "75a11da44c802486bc6f65640aa48a730f0f684c5c07a42ba3cd1735eb3fb070") @@
    (<<"a", "a", "a">> :> "9834876dcfb05cb167a5c24953eba58c4ac89b1adf57f28f2f9d09af107ee8f0") @@
    (<<"a", "a", "b">> :> "38760eabb666e8e61ee628a17c4090cc50728e095ff24218119d51bd22475363") @@
    (<<"a", "a", Newline>> :> "d9cd8155764c3543f10fad8a480d743137466f8d55213c8eaefcd12f06d43a80") @@
    (<<"a", "b", "a">> :> "e124adcce1fb2f88e1ea799c3d0820845ed343e6c739e54131fcb3a56e4bc1bd") @@
    (<<"a", "b", "b">> :> "715edf8ba8729420cd4d1ce85ed61954a9f531f8c548df728c407effe839296d") @@
    (<<"a", "b", Newline>> :> "a63d8014dba891345b30174df2b2a57efbb65b4f9f09b98f245d1b3192277ece") @@
    (<<"a", Newline, "a">> :> "99b4ae0e261695ce9cb3912cdb821b687ad3ee28746333d2c49c9a141576d800") @@
    (<<"a", Newline, "b">> :> "7e18f737311b2dc3b2f269dd78396b0351f14fb66efa879f768cb23181883c78") @@
    (<<"a", Newline, Newline>> :> "a7da489976d0047490617adb4f7a1f27f7af8b52a5176fd002ffe471863520ab") @@
    (<<"b", "a", "a">> :> "665edae6d52666d13e3573cc42f6799ca415b87312c3bd0fa37ea44e0de1fe64") @@
    (<<"b", "a", "b">> :> "ecdd97405c79b408ee7791029d05d2b57893d9b06a1282531e0df729daefcef5") @@
    (<<"b", "a", Newline>> :> "8bca2b27f1a5568d128c60da480f69e42f76ab2283e2bafe2b9442acb068d4f6") @@
    (<<"b", "b", "a">> :> "324e8d5716afe4775118fe12256fd3d488cce575e375ce6f8eb16cb4b5bbb5d3") @@
    (<<"b", "b", "b">> :> "3e744b9dc39389baf0c5a0660589b8402f3dbb49b89b3e75f2c9355852a3c677") @@
    (<<"b", "b", Newline>> :> "a81c31ac62620b9215a14ff00544cb07a55b765594f3ab3be77e70923ae27cf1") @@
    (<<"b", Newline, "a">> :> "c4a78e5bdf318c857b19a6ae4678d9fc8ab0d9bf2b7dd11b41a06c4c1047d943") @@
    (<<"b", Newline, "b">> :> "6d6402155aa5ad82a88f36f74051cd89868134f1966c0c4fd52b4452683598de") @@
    (<<"b", Newline, Newline>> :> "bedcd5bfb50af622be56c4aec7ac5da64745686b362afc7e615ea89b0705b8f8") @@
    (<<Newline, "a", "a">> :> "bcdd088f7dd93cb0852d2cfc299f8ef3a7326b118046a7944a3bcf1045af84bd") @@
    (<<Newline, "a", "b">> :> "bc7b37cf2db4359d926a3b94ecb623f879535404d29af460b9f9a1a2927120a3") @@
    (<<Newline, "a", Newline>> :> "6dba9d80d5c3ac293f1947c1457ea897869ebb556045095ffb3f06b14da2f7f0") @@
    (<<Newline, "b", "a">> :> "4d861ba0ebe147bc836e09d040eddd09b5bc7b81e0e4fd38e771257c6c3fee2c") @@
    (<<Newline, "b", "b">> :> "ccff382cf97657d547c5deb1e5749f87c9becec919452a41c02076fd38a19b65") @@
    (<<Newline, "b", Newline>> :> "e6ed5f20a317290e3aba55240de48a67ec6690fd22ab71a1332ac9fddbc38cc5") @@
    (<<Newline, Newline, "a">> :> "34ab1303fe3af8118ec434441d653e9fe0e74e6d2e4879c4d67e49aeca076a83") @@
    (<<Newline, Newline, "b">> :> "fd856f02f3eb2b279d311a0f0e9dd39ef9505abbc0e8dc33888a6fa85cfd7927") @@
    (<<Newline, Newline, Newline>> :> "6a3cf5192354f71615ac51034b3e97c20eda99643fcaf5bbe6d41ad59bd12167")

\* ClipboardManager.hash
hash(content) == sha256Hex[content]

\* The zero value of a Go string field: what NewClipboardManager leaves in
\* lastWaylandHash and lastX11Hash.
ZeroString == ""

----------------------------------------------------------------------------
(* The external tools.  One run of wl-paste or xclip -o ends in one of     *)
(* three ways: it exits with status 0 after printing its output, it exits  *)
(* with a non-zero status or cannot be started, or the context deadline    *)
(* kills it.  A failing run may have printed its output before it failed.  *)

ReadStatuses == {"ok", "exit", "timeout"}

WriteStatuses == {"ok", "exit", "timeout"}

\* "wl-paste -t text/plain" on a Wayland clipboard holding `content`.  The
\* command line has no --no-newline, so wl-paste prints the content and
\* appends a newline to it, the type being a text type.  On a clipboard that
\* holds nothing wl-paste either finds no selection and exits with status 1
\* (status "exit"), or finds an empty text and prints the newline alone.
wlPaste(content, status) ==
    [status |-> status, out |-> Append(content, Newline)]

\* "xclip -selection clipboard -o" on an X11 clipboard holding `content`:
\* xclip prints the content as it is.
xclipOut(content, status) == [status |-> status, out |-> content]

\* ClipboardManager.getWaylandClipboard: the pair (string, error) it returns.
getWaylandClipboard(run) ==
    IF run.status # "ok"
    THEN [content |-> <<>>, err |-> "nil"]
    ELSE IF Len(run.out) > maxClipboardSize
         THEN [content |-> <<>>, err |-> "nil"]
         ELSE [content |-> run.out, err |-> "nil"]

\* getX11Clipboard returning what xclip printed although xclip failed.
getX11Clipboard_KeepsOutput(run) ==
    IF Len(run.out) > maxClipboardSize
    THEN [content |-> <<>>, err |-> "nil"]
    ELSE [content |-> run.out, err |-> "nil"]

\* ClipboardManager.getX11Clipboard
getX11Clipboard(run) ==
    IF run.status # "ok"
    THEN [content |-> <<>>, err |-> "nil"]
    ELSE IF Len(run.out) > maxClipboardSize
         THEN [content |-> <<>>, err |-> "nil"]
         ELSE [content |-> run.out, err |-> "nil"]

\* ClipboardManager.setWaylandClipboard: whether wl-copy was run, whether the
\* content reached the clipboard, and the error returned.
setWaylandClipboard(content, status) ==
    IF Len(content) > maxClipboardSize
    THEN [ran |-> FALSE, delivered |-> FALSE, err |-> "nil"]
    ELSE [ran |-> TRUE, delivered |-> (status = "ok"), err |-> "nil"]

\* ClipboardManager.setX11Clipboard
setX11Clipboard(content, status) ==
    IF Len(content) > maxClipboardSize
    THEN [ran |-> FALSE, delivered |-> FALSE, err |-> "nil"]
    ELSE [ran |-> TRUE, delivered |-> (status = "ok"), err |-> "nil"]

----------------------------------------------------------------------------
(* One cycle.  The locals of syncClipboards and the two fields it updates  *)
(* are a record; `calls` lists the calls of setX11Clipboard and            *)
(* setWaylandClipboard in the order the cycle makes them.                  *)

\* The Wayland direction advancing lastX11Hash only when the write succeeded.
SyncWaylandToX11_X11FingerprintOnSuccess(s, status) ==
    IF s.waylandHash # s.lastWaylandHash /\ s.waylandContent # <<>>
    THEN IF s.waylandHash # s.x11Hash
         THEN [s EXCEPT
                 !.calls = Append(@, [to |-> "x11",
                                      content |-> s.waylandContent,
                                      delivered |-> setX11Clipboard(s.waylandContent, status).delivered]),
                 !.lastX11Hash = IF setX11Clipboard(s.waylandContent, status).delivered
                                 THEN s.waylandHash ELSE @,
                 !.x11Hash = s.waylandHash,
                 !.lastWaylandHash = s.waylandHash]
         ELSE [s EXCEPT !.lastWaylandHash = s.waylandHash]
    ELSE s

\* The Wayland direction without the assignment to the local x11Hash after
\* the push.
SyncWaylandToX11_KeepsX11Digest(s, status) ==
    IF s.waylandHash # s.lastWaylandHash /\ s.waylandContent # <<>>
    THEN IF s.waylandHash # s.x11Hash
         THEN [s EXCEPT
                 !.calls = Append(@, [to |-> "x11",
                                      content |-> s.waylandContent,
                                      delivered |-> setX11Clipboard(s.waylandContent, status).delivered]),
                 !.lastX11Hash = s.waylandHash,
                 !.lastWaylandHash = s.waylandHash]
         ELSE [s EXCEPT !.lastWaylandHash = s.waylandHash]
    ELSE s

\* "Sync Wayland -> X11 (if Wayland changed)"
SyncWaylandToX11(s, status) ==
    IF s.waylandHash # s.lastWaylandHash /\ s.waylandContent # <<>>
    THEN IF s.waylandHash # s.x11Hash
         THEN [s EXCEPT
                 !.calls = Append(@, [to |-> "x11",
                                      content |-> s.waylandContent,
                                      delivered |-> setX11Clipboard(s.waylandContent, status).delivered]),
                 !.lastX11Hash = s.waylandHash,
                 !.x11Hash = s.waylandHash,
                 !.lastWaylandHash = s.waylandHash]
         ELSE [s EXCEPT !.lastWaylandHash = s.waylandHash]
    ELSE s

\* "Sync X11 -> Wayland (if X11 changed)"
SyncX11ToWayland(s, status) ==
    IF s.x11Hash # s.lastX11Hash /\ s.x11Content # <<>>
    THEN IF s.x11Hash # s.waylandHash
         THEN [s EXCEPT
                 !.calls = Append(@, [to |-> "wayland",
                                      content |-> s.x11Content,
                                      delivered |-> setWaylandClipboard(s.x11Content, status).delivered]),
                 !.lastWaylandHash = s.x11Hash,
                 !.waylandHash = s.x11Hash,
                 !.lastX11Hash = s.x11Hash]
         ELSE [s EXCEPT !.lastX11Hash = s.x11Hash]
    ELSE s

\* The locals of syncClipboards after getWaylandClipboard has returned; the
\* locals not yet assigned hold their zero values.
AfterWaylandRead(lastW, lastX, wRun) ==
    [lastWaylandHash |-> lastW,
     lastX11Hash |-> lastX,
     waylandContent |-> getWaylandClipboard(wRun).content,
     x11Content |-> <<>>,
     waylandHash |-> ZeroString,
     x11Hash |-> ZeroString,
     calls |-> <<>>]

\* The locals after getX11Clipboard has returned and the two digests are
\* computed.
AfterX11Read(s, xRun) ==
    [s EXCEPT !.x11Content = getX11Clipboard(xRun).content,
              !.waylandHash = hash(s.waylandContent),
              !.x11Hash = hash(getX11Clipboard(xRun).content)]

\* The locals of syncClipboards after the two reads.
AfterReads(lastW, lastX, wRun, xRun) ==
    AfterX11Read(AfterWaylandRead(lastW, lastX, wRun), xRun)

\* ClipboardManager.syncClipboards, given the two fields, the runs of the two
\* reading tools and the outcome of each writing tool should it be invoked.
syncClipboards(lastW, lastX, wRun, xRun, x11Status, wlStatus) ==
    SyncX11ToWayland(SyncWaylandToX11(AfterReads(lastW, lastX, wRun, xRun),
                                      x11Status),
                     wlStatus)

\* The content an endpoint holds after the calls of a cycle.
RECURSIVE Deliver(_, _, _)
Deliver(calls, endpoint, content) ==
    IF calls = <<>> THEN content
    ELSE Deliver(Tail(calls), endpoint,
                 IF Head(calls).to = endpoint /\ Head(calls).delivered
                 THEN Head(calls).content ELSE content)

\* The calls a direction of the cycle added to the locals.
NewCalls(before, after) ==
    SubSeq(after.calls, Len(before.calls) + 1, Len(after.calls))

Min(a, b) == IF a < b THEN a ELSE b

----------------------------------------------------------------------------
(* State machine.  syncClipboards waits for an external tool up to three   *)
(* times (wl-paste, xclip -o, then xclip -i or wl-copy), each time for up  *)
(* to the command timeout, and other programs own the clipboards           *)
(* meanwhile.  A cycle is therefore executed in steps, one for each run of *)
(* a tool, and pc is the position of the engine: "select" in the loop of   *)
(* start between two cycles, "getX11" after getWaylandClipboard has        *)
(* returned, "syncWayland" and "syncX11" before the two directions, and    *)
(* "return" at the return of syncClipboards.                               *)

NoRead == [fn |-> "none", run |-> [status |-> "ok", out |-> <<>>],
           result |-> [content |-> <<>>, err |-> "nil"]]

\* History of the cycle in execution: wOK and xOK tell whether the reading
\* tool exited with status 0; wl and x11 are what the clipboards held when
\* they were read; lastW and lastX are the two fingerprints when the cycle
\* began; before is the set of endpoints other programs changed between the
\* beginning of the previous cycle and the beginning of this one.
NoCycle ==
    [wOK |-> FALSE, xOK |-> FALSE, wl |-> <<>>, x11 |-> <<>>,
     lastW |-> ZeroString, lastX |-> ZeroString, before |-> {}]

\* Summary of the cycles completed: n counts them; the other fields describe
\* the last of them: whether each reading tool exited with status 0, what
\* each read adapter returned, and the calls the cycle made.
NoPrev ==
    [n |-> 0, wOK |-> FALSE, xOK |-> FALSE, wRead |-> <<>>, xRead |-> <<>>,
     calls |-> <<>>]

\* phase is "pending" before the first cycle, "read" from the beginning of the
\* first cycle on for as long as no program changes a clipboard, and "over"
\* after such a change.  wl and x11 are what the clipboards held when the
\* first cycle began; ok tells that in the first cycle the reading tool of
\* every endpoint that held content exited with status 0 and every write was
\* delivered.
NoStartup(phase) ==
    [phase |-> phase, wl |-> <<>>, x11 |-> <<>>, ok |-> FALSE]

\* Every call of the list was delivered.
AllDelivered(calls) == \A i \in 1..Len(calls) : calls[i].delivered

\* The calls of a cycle that write to the endpoint.
CallsTo(calls, endpoint) == SelectSeq(calls, LAMBDA k : k.to = endpoint)

\* exitCode is the set of the exit statuses of the process: empty while it
\* runs, one status once it has exited.
NoExit == {}

NoLocals == <<>>

NoManager == [enableLogging |-> FALSE, logWriter |-> "stdout"]

NoHist == [delivered |-> FALSE, inFlight |-> FALSE, late |-> FALSE]

NoFed == [w |-> <<>>, x |-> <<>>, same |-> TRUE]

NoIssued == [fixed |-> <<>>, config |-> <<>>]

\* The fixed-constant variant is not part of the behaviour.
NoVariants ==
    /\ lastWayland = <<>>
    /\ lastX11 = <<>>
    /\ fed = NoFed
    /\ issued = NoIssued

\* The process around the engine is not part of the behaviour.
NoProcess ==
    /\ exitCode = NoExit
    /\ env = <<>>
    /\ config = <<>>
    /\ manager = NoManager
    /\ lines = {}
    /\ ticks = 0
    /\ sigs = 0
    /\ running = 0
    /\ logClosed = FALSE
    /\ hist = NoHist
    /\ NoVariants

\* NewClipboardManager leaves both hash fields at their zero value; the two
\* clipboards hold whatever other programs put there before the daemon
\* started; the loop of start waits for its first tick.
Init ==
    /\ wl \in Contents
    /\ x11 \in Contents
    /\ lastWaylandHash = ZeroString
    /\ lastX11Hash = ZeroString
    /\ pc = "select"
    /\ locals = NoLocals
    /\ cur = NoCycle
    /\ prev = NoPrev
    /\ startup = NoStartup("pending")
    /\ ext = {}
    /\ unseen = Endpoints
    /\ stable = FALSE
    /\ target = <<>>
    /\ rd = NoRead
    /\ NoProcess

\* syncClipboards, line 200: a tick is taken and getWaylandClipboard runs
\* wl-paste on what the Wayland clipboard holds now.
EngineGetWayland(status) ==
    /\ pc = "select"
    /\ locals' = AfterWaylandRead(lastWaylandHash, lastX11Hash,
                                  wlPaste(wl, status))
    /\ pc' = "getX11"
    /\ UNCHANGED <<wl, x11, lastWaylandHash, lastX11Hash>>

\* syncClipboards, lines 201 to 204: getX11Clipboard runs xclip -o on what the
\* X11 clipboard holds now, and the two digests are computed.
EngineGetX11(status) ==
    /\ pc = "getX11"
    /\ locals' = AfterX11Read(locals, xclipOut(x11, status))
    /\ pc' = "syncWayland"
    /\ UNCHANGED <<wl, x11, lastWaylandHash, lastX11Hash>>

\* syncClipboards, lines 206 to 217: the Wayland direction; xclip -i, when it
\* is run and succeeds, replaces what the X11 clipboard holds at that moment.
\* A writing tool that is not invoked has no outcome to choose.
EngineSyncWayland(status) ==
    /\ pc = "syncWayland"
    /\ LET s == SyncWaylandToX11(locals, status)
       IN /\ NewCalls(locals, s) = <<>> => status = "ok"
          /\ locals' = s
          /\ lastWaylandHash' = s.lastWaylandHash
          /\ lastX11Hash' = s.lastX11Hash
          /\ x11' = Deliver(NewCalls(locals, s), "x11", x11)
    /\ pc' = "syncX11"
    /\ UNCHANGED wl

\* syncClipboards, lines 219 to 230: the X11 direction; wl-copy, when it is
\* run and succeeds, replaces what the Wayland clipboard holds at that moment.
EngineSyncX11(status) ==
    /\ pc = "syncX11"
    /\ LET s == SyncX11ToWayland(locals, status)
       IN /\ NewCalls(locals, s) = <<>> => status = "ok"
          /\ locals' = s
          /\ lastWaylandHash' = s.lastWaylandHash
          /\ lastX11Hash' = s.lastX11Hash
          /\ wl' = Deliver(NewCalls(locals, s), "wayland", wl)
    /\ pc' = "return"
    /\ UNCHANGED x11

\* syncClipboards, line 232: the cycle returns to the loop of start.
EngineReturn ==
    /\ pc = "return"
    /\ pc' = "select"
    /\ locals' = NoLocals
    /\ UNCHANGED <<wl, x11, lastWaylandHash, lastX11Hash>>

\* Every adapter call of the cycle at its return succeeded: both reading
\* tools exited with status 0 and every write was delivered.
AllOK == cur.wOK /\ cur.xOK /\ AllDelivered(locals.calls)

\* In the first cycle, at its return, the reading tool of every endpoint that
\* held content exited with status 0 and every write was delivered.
FirstOK ==
    /\ startup.wl # <<>> => cur.wOK
    /\ startup.x11 # <<>> => cur.xOK
    /\ AllDelivered(locals.calls)

\* The history follows the engine for MaxCycles cycles.
Followed == prev.n < MaxCycles

\* A cycle begins: getWaylandClipboard.
CallGetWayland ==
    /\ Followed
    /\ \E status \in ReadStatuses :
          /\ EngineGetWayland(status)
          /\ cur' = [NoCycle EXCEPT !.wOK = (status = "ok"),
                                    !.wl = wl,
                                    !.lastW = lastWaylandHash,
                                    !.lastX = lastX11Hash,
                                    !.before = ext]
    /\ ext' = {}
    /\ startup' = IF startup.phase = "pending"
                  THEN [NoStartup("read") EXCEPT !.wl = wl, !.x11 = x11]
                  ELSE startup
    /\ UNCHANGED <<prev, unseen, stable, target, rd>>
    /\ UNCHANGED procVars
    /\ UNCHANGED variantVars

\* getX11Clipboard.
CallGetX11 ==
    /\ \E status \in ReadStatuses :
          /\ EngineGetX11(status)
          /\ cur' = [cur EXCEPT !.xOK = (status = "ok"), !.x11 = x11]
    /\ UNCHANGED <<prev, startup, ext, unseen, stable, target, rd>>
    /\ UNCHANGED procVars
    /\ UNCHANGED variantVars

\* The Wayland direction.
WaylandDirection ==
    /\ \E status \in WriteStatuses : EngineSyncWayland(status)
    /\ UNCHANGED engineHist
    /\ UNCHANGED procVars
    /\ UNCHANGED variantVars

\* The X11 direction.
X11Direction ==
    /\ \E status \in WriteStatuses : EngineSyncX11(status)
    /\ UNCHANGED engineHist
    /\ UNCHANGED procVars
    /\ UNCHANGED variantVars

\* The cycle returns and is summarised in the history.
CycleReturns ==
    /\ EngineReturn
    /\ prev' = [n |-> prev.n + 1,
                wOK |-> cur.wOK,
                xOK |-> cur.xOK,
                wRead |-> locals.waylandContent,
                xRead |-> locals.x11Content,
                calls |-> locals.calls]
    /\ cur' = NoCycle
    /\ startup' = IF prev.n = 0 /\ startup.phase = "read"
                  THEN [startup EXCEPT !.ok = FirstOK]
                  ELSE startup
    /\ UNCHANGED <<ext, unseen, stable, target, rd>>
    /\ UNCHANGED procVars
    /\ UNCHANGED variantVars

\* Another program puts content c on the Wayland clipboard.
ExternalWayland(c) ==
    /\ Followed \/ pc # "select"
    /\ c # wl
    /\ wl' = c
    /\ ext' = ext \cup {"wayland"}
    /\ startup' = IF startup.phase = "read" THEN NoStartup("over") ELSE startup
    /\ UNCHANGED <<x11, lastWaylandHash, lastX11Hash, pc, locals, cur, prev,
                   unseen, stable, target, rd>>
    /\ UNCHANGED procVars
    /\ UNCHANGED variantVars

\* Another program (the VMware guest tools) puts content c on the X11 clipboard.
ExternalX11(c) ==
    /\ Followed \/ pc # "select"
    /\ c # x11
    /\ x11' = c
    /\ ext' = ext \cup {"x11"}
    /\ startup' = IF startup.phase = "read" THEN NoStartup("over") ELSE startup
    /\ UNCHANGED <<wl, lastWaylandHash, lastX11Hash, pc, locals, cur, prev,
                   unseen, stable, target, rd>>
    /\ UNCHANGED procVars
    /\ UNCHANGED variantVars

Next ==
    \/ CallGetWayland
    \/ CallGetX11
    \/ WaylandDirection
    \/ X11Direction
    \/ CycleReturns
    \/ \E c \in Contents : ExternalWayland(c)
    \/ \E c \in Contents : ExternalX11(c)

Spec == Init /\ [][Next]_vars

----------------------------------------------------------------------------
(* The engine under a fair ticker, with an environment that at some point  *)
(* makes its last change.  The history of cycles is not recorded here;     *)
(* `unseen` records which endpoints hold content that other programs put   *)
(* there and that no run of the reading tool has read with status 0.       *)
(* Cycles are not counted: the engine runs for as long as the ticker fires.*)

\* In the stable mode every tool succeeds.
Outcome(status) == stable => status = "ok"

\* A tick is taken and the cycle begins: getWaylandClipboard.
TickerGetWayland ==
    /\ \E status \in ReadStatuses :
          /\ Outcome(status)
          /\ EngineGetWayland(status)
          /\ unseen' = IF status = "ok" THEN unseen \ {"wayland"} ELSE unseen
    /\ UNCHANGED <<cur, prev, startup, ext, stable, target, rd>>
    /\ UNCHANGED procVars
    /\ UNCHANGED variantVars

\* getX11Clipboard.
TickerGetX11 ==
    /\ \E status \in ReadStatuses :
          /\ Outcome(status)
          /\ EngineGetX11(status)
          /\ unseen' = IF status = "ok" THEN unseen \ {"x11"} ELSE unseen
    /\ UNCHANGED <<cur, prev, startup, ext, stable, target, rd>>
    /\ UNCHANGED procVars
    /\ UNCHANGED variantVars

\* The Wayland direction.
TickerSyncWayland ==
    /\ \E status \in WriteStatuses : Outcome(status) /\ EngineSyncWayland(status)
    /\ UNCHANGED engineHist
    /\ UNCHANGED procVars
    /\ UNCHANGED variantVars

\* The X11 direction.
TickerSyncX11 ==
    /\ \E status \in WriteStatuses : Outcome(status) /\ EngineSyncX11(status)
    /\ UNCHANGED engineHist
    /\ UNCHANGED procVars
    /\ UNCHANGED variantVars

\* The cycle returns to the loop, which waits for the next tick.
TickerReturn ==
    /\ EngineReturn
    /\ UNCHANGED engineHist
    /\ UNCHANGED procVars
    /\ UNCHANGED variantVars

\* Another program puts content c on an endpoint, at any moment.
OtherProgram(e, c) ==
    /\ ~stable
    /\ IF e = "wayland"
       THEN c # wl /\ wl' = c /\ x11' = x11
       ELSE c # x11 /\ x11' = c /\ wl' = wl
    /\ unseen' = unseen \cup {e}
    /\ UNCHANGED <<lastWaylandHash, lastX11Hash, pc, locals, cur, prev,
                   startup, ext, stable, target, rd>>
    /\ UNCHANGED procVars
    /\ UNCHANGED variantVars

\* The last external change: one endpoint is set to a non-empty content within
\* the limit, the content other programs put on the other endpoint having
\* been read by the engine; from here on no program touches a clipboard and
\* every tool succeeds.  The change can come while a cycle is in execution.
LastChange(e, c) ==
    /\ ~stable
    /\ unseen = {}
    /\ c # <<>>
    /\ Len(c) <= maxClipboardSize
    /\ IF e = "wayland"
       THEN c # wl /\ wl' = c /\ x11' = x11
       ELSE c # x11 /\ x11' = c /\ wl' = wl
    /\ stable' = TRUE
    /\ target' = c
    /\ unseen' = {e}
    /\ UNCHANGED <<lastWaylandHash, lastX11Hash, pc, locals, cur, prev,
                   startup, ext, rd>>
    /\ UNCHANGED procVars
    /\ UNCHANGED variantVars

NextLive ==
    \/ TickerGetWayland
    \/ TickerGetX11
    \/ TickerSyncWayland
    \/ TickerSyncX11
    \/ TickerReturn
    \/ \E e \in Endpoints, c \in Contents : OtherProgram(e, c)
    \/ \E e \in Endpoints, c \in Contents : LastChange(e, c)

\* The ticker fires for as long as the loop runs, and every external tool
\* ends within the command timeout, so a cycle takes each of its steps.
LiveSpec ==
    /\ Init
    /\ [][NextLive]_vars
    /\ WF_vars(TickerGetWayland)
    /\ WF_vars(TickerGetX11)
    /\ WF_vars(TickerSyncWayland)
    /\ WF_vars(TickerSyncX11)
    /\ WF_vars(TickerReturn)

----------------------------------------------------------------------------
(* The read adapters on their own: one call on one run of the tool.        *)

AllRuns == [status : ReadStatuses, out : ToolOutputs]

ReadWayland(run) ==
    /\ rd' = [fn |-> "getWaylandClipboard", run |-> run,
              result |-> getWaylandClipboard(run)]
    /\ UNCHANGED <<wl, x11, lastWaylandHash, lastX11Hash, pc, locals, cur,
                   prev, startup, ext, unseen, stable, target>>
    /\ UNCHANGED procVars
    /\ UNCHANGED variantVars

ReadX11(run) ==
    /\ rd' = [fn |-> "getX11Clipboard", run |-> run,
              result |-> getX11Clipboard(run)]
    /\ UNCHANGED <<wl, x11, lastWaylandHash, lastX11Hash, pc, locals, cur,
                   prev, startup, ext, unseen, stable, target>>
    /\ UNCHANGED procVars
    /\ UNCHANGED variantVars

NextRead ==
    \/ \E run \in AllRuns : ReadWayland(run)
    \/ \E run \in AllRuns : ReadX11(run)

InitRead == Init /\ wl = <<>> /\ x11 = <<>>

ReadSpec == InitRead /\ [][NextRead]_vars

----------------------------------------------------------------------------
(* Claims about the engine.  In Spec a claim about a cycle is stated at    *)
(* the return of the cycle (pc = "return"): locals are the locals of the   *)
(* cycle, cur is its history, prev is the cycle before it, and             *)
(* lastWaylandHash and lastX11Hash are as the cycle leaves them.           *)

WithinLimit(c) == c # <<>> /\ Len(c) <= maxClipboardSize

AtReturn == pc = "return"

\* No program has changed a clipboard since the previous cycle began: the
\* previous cycle and the cycle at its return ran one after the other with
\* the clipboards left to the engine.
Quiet == prev.n > 0 /\ cur.before = {} /\ ext = {}

\* Every adapter call of the previous cycle succeeded.
PrevOK == prev.wOK /\ prev.xOK /\ AllDelivered(prev.calls)

\* C1: once one endpoint has been changed by another program to a non-empty
\* content within the limit, the other endpoint being left alone, and no
\* further external change or tool failure occurs, the fair ticker leads to a
\* state in which both endpoints hold that content.
C1_Replication == stable ~> (wl = target /\ x11 = target)

\* The calls delivered content to an endpoint.
Copied(calls) == \E i \in 1..Len(calls) : calls[i].delivered

\* C2: after a cycle that copied content from one endpoint to the other, the
\* write succeeding, the next cycle, with no external change, makes no call of
\* setX11Clipboard or setWaylandClipboard.
C2_NoEcho == (AtReturn /\ Quiet /\ Copied(prev.calls)) => locals.calls = <<>>

\* C3: when syncClipboards runs twice in a row, every adapter call of both
\* runs succeeding and no external change in between, the second run makes no
\* call of setX11Clipboard or setWaylandClipboard and leaves lastWaylandHash
\* and lastX11Hash as the first run left them.
C3_Idempotent ==
    (AtReturn /\ Quiet /\ PrevOK /\ AllOK)
       => /\ locals.calls = <<>>
          /\ lastWaylandHash = cur.lastW
          /\ lastX11Hash = cur.lastX

\* The engine's fingerprint for an endpoint.
Fingerprint(endpoint, lastW, lastX) == IF endpoint = "wayland" THEN lastW ELSE lastX

\* C4: a write that is not delivered leaves the fingerprint of its destination
\* as it was before the cycle, and the next cycle, with no external change,
\* makes the same call again.
C4_RetryAfterFailedWrite ==
    AtReturn =>
       /\ \A i \in 1..Len(locals.calls) :
             ~locals.calls[i].delivered
                => Fingerprint(locals.calls[i].to, lastWaylandHash, lastX11Hash)
                     = Fingerprint(locals.calls[i].to, cur.lastW, cur.lastX)
       /\ Quiet =>
             \A i \in 1..Len(prev.calls) :
                ~prev.calls[i].delivered
                   => \E j \in 1..Len(locals.calls) :
                         /\ locals.calls[j].to = prev.calls[i].to
                         /\ locals.calls[j].content = prev.calls[i].content

\* The case of C5: when the cycle read them, both endpoints held non-empty
\* contents within the limit, different from each other, each with a digest
\* other than the fingerprint of its endpoint; both reading tools exited with
\* status 0, the write was delivered, and no program changed a clipboard
\* while the cycle ran.
BothNew ==
    /\ ext = {}
    /\ AllOK
    /\ WithinLimit(cur.wl) /\ WithinLimit(cur.x11) /\ cur.wl # cur.x11
    /\ hash(cur.wl) # cur.lastW
    /\ hash(cur.x11) # cur.lastX

\* C5: in a cycle that finds new, different contents on both endpoints, the
\* only call is setX11Clipboard with Wayland's content; after the cycle X11
\* holds Wayland's content and both fingerprints are its digest.
C5_TieBreak ==
    (AtReturn /\ BothNew)
       => /\ Len(locals.calls) = 1
          /\ locals.calls[1].to = "x11"
          /\ locals.calls[1].content = cur.wl
          /\ x11 = cur.wl
          /\ lastWaylandHash = hash(cur.wl)
          /\ lastX11Hash = hash(cur.wl)

\* The first cycle of a fresh engine ran with no program changing a clipboard,
\* every tool succeeding, and found a content of exactly maxClipboardSize
\* characters on the endpoint and nothing on the other endpoint.
FirstCycleFullSize(endpoint) ==
    /\ prev.n = 0 /\ ext = {} /\ AllOK
    /\ IF endpoint = "wayland"
       THEN Len(cur.wl) = maxClipboardSize /\ cur.x11 = <<>>
       ELSE Len(cur.x11) = maxClipboardSize /\ cur.wl = <<>>

\* C6: every content passed to setX11Clipboard or setWaylandClipboard is
\* non-empty and no longer than maxClipboardSize, whatever the endpoints hold,
\* and a content of exactly maxClipboardSize characters is passed on to the
\* other endpoint.
C6_WriteBounds ==
    AtReturn =>
       /\ \A i \in 1..Len(locals.calls) :
             /\ locals.calls[i].content # <<>>
             /\ Len(locals.calls[i].content) <= maxClipboardSize
       /\ FirstCycleFullSize("wayland")
             => \E i \in 1..Len(locals.calls) :
                   locals.calls[i].to = "x11" /\ locals.calls[i].content = cur.wl
       /\ FirstCycleFullSize("x11")
             => \E i \in 1..Len(locals.calls) :
                   locals.calls[i].to = "wayland" /\ locals.calls[i].content = cur.x11

\* The first half of C6 on its own: the contents passed to the write adapters
\* are non-empty and within the limit.
C6_ArgumentsWithinLimit ==
    pc # "select" =>
       \A i \in 1..Len(locals.calls) :
          /\ locals.calls[i].content # <<>>
          /\ Len(locals.calls[i].content) <= maxClipboardSize

\* What the claim says a read adapter returns for a run of its tool.
ExpectedRead(run) ==
    IF run.status = "ok" /\ Len(run.out) <= maxClipboardSize
    THEN run.out ELSE <<>>

\* A run on an empty clipboard.
EmptyRun == [status |-> "ok", out |-> <<>>]

\* C7: getWaylandClipboard and getX11Clipboard return a nil error for every
\* run of the tool; they return the whole output when the tool exited with
\* status 0 and the output is no longer than maxClipboardSize, and the empty
\* string otherwise, which is also what they return for an empty clipboard.
C7_ReadResult ==
    rd.fn # "none" =>
       /\ rd.result.err = "nil"
       /\ rd.result.content = ExpectedRead(rd.run)
       /\ (rd.run.status # "ok" \/ Len(rd.run.out) > maxClipboardSize)
             => rd.result = (IF rd.fn = "getWaylandClipboard"
                             THEN getWaylandClipboard(EmptyRun)
                             ELSE getX11Clipboard(EmptyRun))

\* C7 witness: xclip printed a content within the limit and then timed out;
\* getX11Clipboard returned the empty string.
C7_Witness ==
    /\ rd.fn = "getX11Clipboard"
    /\ rd.run.status = "timeout"
    /\ rd.run.out # <<>> /\ Len(rd.run.out) <= maxClipboardSize
    /\ rd.result.content = <<>>

\* The content the engine believes an endpoint holds at the return of a cycle:
\* what the cycle wrote to it, and otherwise what the cycle read from it.
Believed(endpoint) ==
    IF CallsTo(locals.calls, endpoint) # <<>>
    THEN CallsTo(locals.calls, endpoint)[Len(CallsTo(locals.calls, endpoint))].content
    ELSE IF endpoint = "wayland" THEN locals.waylandContent ELSE locals.x11Content

\* C8: the fingerprints start as the digest of the empty content, and at the
\* end of every cycle each fingerprint is the digest of the content the engine
\* believes its endpoint holds, the empty content included.
C8_FingerprintInvariant ==
    /\ (pc = "select" /\ prev.n = 0) => /\ lastWaylandHash = hash(<<>>)
                                        /\ lastX11Hash = hash(<<>>)
    /\ AtReturn => /\ lastWaylandHash = hash(Believed("wayland"))
                   /\ lastX11Hash = hash(Believed("x11"))

\* The second half of C8 on its own.
C8_AfterCycle ==
    AtReturn => /\ lastWaylandHash = hash(Believed("wayland"))
                /\ lastX11Hash = hash(Believed("x11"))

\* When the first cycle of a fresh engine began, one endpoint held a non-empty
\* content within the limit and the other endpoint was empty; no program has
\* changed a clipboard since.
StartedOneSided ==
    /\ startup.phase = "read"
    /\ \/ WithinLimit(startup.wl) /\ startup.x11 = <<>>
       \/ WithinLimit(startup.x11) /\ startup.wl = <<>>

StartContent == IF startup.wl # <<>> THEN startup.wl ELSE startup.x11

StartEmptyEndpoint == IF startup.wl # <<>> THEN "x11" ELSE "wayland"

\* C9: when the first cycle of a fresh engine finds a content C within the
\* limit on one endpoint and the other endpoint empty, it makes exactly one
\* call, writing C to the empty endpoint, and leaves both fingerprints at the
\* digest of C; the second cycle, no program having changed a clipboard,
\* makes no call.
C9_FirstCycleOneSided ==
    (AtReturn /\ StartedOneSided) =>
       /\ (prev.n = 0 /\ FirstOK)
             => /\ Len(locals.calls) = 1
                /\ locals.calls[1].to = StartEmptyEndpoint
                /\ locals.calls[1].content = StartContent
                /\ lastWaylandHash = hash(StartContent)
                /\ lastX11Hash = hash(StartContent)
       /\ (prev.n = 1 /\ startup.ok) => locals.calls = <<>>

\* When the first cycle of a fresh engine began, both endpoints held the same
\* non-empty content within the limit; no program has changed a clipboard
\* since.
StartedSame ==
    /\ startup.phase = "read"
    /\ WithinLimit(startup.wl) /\ startup.wl = startup.x11

\* C10: when the first cycle of a fresh engine finds the same non-empty
\* content C on both endpoints, that cycle and every cycle after it, as long
\* as no program changes a clipboard, make no call, and both fingerprints are
\* the digest of C.
C10_FirstCycleSameContent ==
    (AtReturn /\ StartedSame /\ (IF prev.n = 0 THEN FirstOK ELSE startup.ok))
       => /\ locals.calls = <<>>
          /\ lastWaylandHash = hash(startup.wl)
          /\ lastX11Hash = hash(startup.wl)

\* What a cycle read from the endpoint, and whether the reading tool exited
\* with status 0.
ReadOf(endpoint) ==
    IF endpoint = "wayland" THEN locals.waylandContent ELSE locals.x11Content

ReadOK(endpoint) == IF endpoint = "wayland" THEN cur.wOK ELSE cur.xOK

PrevReadOf(endpoint) == IF endpoint = "wayland" THEN prev.wRead ELSE prev.xRead

PrevReadOK(endpoint) == IF endpoint = "wayland" THEN prev.wOK ELSE prev.xOK

Other(endpoint) == IF endpoint = "wayland" THEN "x11" ELSE "wayland"

\* The cycle at its return read the endpoint as empty while the other endpoint
\* is as the engine last observed it: no program changed it since the previous
\* cycle began, the previous cycle delivered nothing to it, and the reading
\* tool succeeded in both cycles and returned the same content.
UnreadableWhileOtherUnchanged(endpoint) ==
    /\ prev.n > 0
    /\ ReadOf(endpoint) = <<>>
    /\ Other(endpoint) \notin (cur.before \cup ext)
    /\ \A i \in 1..Len(prev.calls) :
          prev.calls[i].to = Other(endpoint) => ~prev.calls[i].delivered
    /\ PrevReadOK(Other(endpoint)) /\ ReadOK(Other(endpoint))
    /\ ReadOf(Other(endpoint)) = PrevReadOf(Other(endpoint))

\* C11: a cycle that reads one endpoint as empty (empty clipboard, failure,
\* timeout or oversized content) while the other endpoint's content is
\* unchanged since the engine last observed it makes no call of
\* setX11Clipboard or setWaylandClipboard and leaves lastWaylandHash and
\* lastX11Hash as they were before the cycle.
C11_UnreadableChangesNothing ==
    (AtReturn /\ \E e \in Endpoints : UnreadableWhileOtherUnchanged(e))
       => /\ locals.calls = <<>>
          /\ lastWaylandHash = cur.lastW
          /\ lastX11Hash = cur.lastX

\* The same statement for cycles that follow a cycle all of whose writes
\* were delivered.
C11_AfterDeliveredWrites ==
    (/\ AtReturn
     /\ \E e \in Endpoints : UnreadableWhileOtherUnchanged(e)
     /\ AllDelivered(prev.calls))
       => /\ locals.calls = <<>>
          /\ lastWaylandHash = cur.lastW
          /\ lastX11Hash = cur.lastX

\* The source endpoint of the call holds content that is old: no program
\* changed the source since the previous cycle began, and the previous cycle
\* read this very content from it.
StaleCall(call) ==
    /\ prev.n > 0
    /\ Other(call.to) \notin (cur.before \cup ext)
    /\ PrevReadOf(Other(call.to)) = call.content

\* C18: whatever the external changes and the outcomes of the tools, a cycle
\* writes the content of an endpoint to the other endpoint only if that
\* content is new on its source: a program changed the source since the
\* previous cycle read it, or the engine had not read this content from it.
C18_NoStaleOverwrite ==
    AtReturn => \A i \in 1..Len(locals.calls) : ~StaleCall(locals.calls[i])

\* The same statement for cycles that follow a cycle all of whose writes
\* were delivered.
C18_AfterDeliveredWrites ==
    (AtReturn /\ AllDelivered(prev.calls))
       => \A i \in 1..Len(locals.calls) : ~StaleCall(locals.calls[i])

\* C19: in the initial state and at the end of every cycle of syncClipboards,
\* whatever the reads returned and whether or not the writes succeeded,
\* lastWaylandHash = lastX11Hash.
C19_FingerprintsCoincide ==
    pc \in {"select", "return"} => lastWaylandHash = lastX11Hash

\* C19 witness: a cycle called setX11Clipboard or setWaylandClipboard, the
\* write failed, and at the return of the cycle both fingerprints are the
\* digest of the content of that call.
C19_Witness ==
    /\ pc = "return"
    /\ Len(locals.calls) = 1
    /\ ~locals.calls[1].delivered
    /\ lastWaylandHash = hash(locals.calls[1].content)
    /\ lastX11Hash = hash(locals.calls[1].content)

\* C20: no cycle of syncClipboards calls both setX11Clipboard and
\* setWaylandClipboard, and none calls either of them twice: a cycle makes
\* its two reads and at most one write.
C20_AtMostOneWrite == pc # "select" => Len(locals.calls) <= 1

\* C20 witness: a cycle read two different non-empty contents, both new to
\* the engine, and returns having made exactly one write.
C20_Witness ==
    /\ pc = "return"
    /\ locals.waylandContent # <<>> /\ locals.x11Content # <<>>
    /\ locals.waylandContent # locals.x11Content
    /\ Len(locals.calls) = 1

----------------------------------------------------------------------------
(* The process around the engine: configuration, construction, logging.    *)

\* getDefaultConfig.  The Config of the source, flattened: timeouts
\* (command_timeout, max_clipboard_size), sync (interval_ms, enable_logging)
\* and logging (verbose, log_file).
DefaultLogFile == "$HOME/.local/share/vmware-sway-sync/sync.log"

getDefaultConfig ==
    [command_timeout |-> 2, max_clipboard_size |-> 52428800,
     interval_ms |-> 500, enable_logging |-> TRUE,
     verbose |-> TRUE, log_file |-> DefaultLogFile]

\* Config{}: the value LoadConfig decodes a file into, and what it returns
\* with an error.
ZeroConfig ==
    [command_timeout |-> 0, max_clipboard_size |-> 0, interval_ms |-> 0,
     enable_logging |-> FALSE, verbose |-> FALSE, log_file |-> ""]

\* NewClipboardManager: with a log file configured, its directory is created
\* and the file opened, and either can fail; the fields of the manager are
\* taken from the configuration.
NewClipboardManager(cfg, mkdirOK, openOK) ==
    IF cfg.log_file # "" /\ ~mkdirOK
    THEN [manager |-> NoManager, err |-> "failed to create log directory"]
    ELSE IF cfg.log_file # "" /\ ~openOK
    THEN [manager |-> NoManager, err |-> "failed to open log file"]
    ELSE [manager |-> [syncInterval |-> cfg.interval_ms,
                       commandTimeout |-> cfg.command_timeout,
                       maxClipboardSize |-> cfg.max_clipboard_size,
                       enableLogging |-> cfg.verbose,
                       logWriter |-> IF cfg.log_file # "" THEN "file"
                                     ELSE "stdout"],
          err |-> "nil"]

\* ClipboardManager.logf on a set of messages: what the logger prints.  The
\* logger writes to logWriter and to nothing else, and it drops a line it
\* cannot write: once the log file is closed, nothing is printed.
logf(cm, closed, messages) ==
    IF cm.enableLogging /\ ~closed THEN messages ELSE {}

\* The messages the adapters and syncClipboards pass to logf.
getWaylandClipboardLog(run) ==
    IF run.status = "timeout" THEN {"warning: wl-paste timeout"}
    ELSE IF run.status = "ok" /\ Len(run.out) > maxClipboardSize
    THEN {"warning: wayland clipboard exceeds size limit"}
    ELSE {}

getX11ClipboardLog(run) ==
    IF run.status = "timeout" THEN {"warning: xclip read timeout"}
    ELSE IF run.status = "ok" /\ Len(run.out) > maxClipboardSize
    THEN {"warning: x11 clipboard exceeds size limit"}
    ELSE {}

setX11ClipboardLog(content, status) ==
    IF Len(content) > maxClipboardSize
    THEN {"error: content exceeds max size, skipping x11 sync"}
    ELSE IF status = "timeout" THEN {"warning: xclip write timeout"}
    ELSE IF status = "exit" THEN {"warning: failed to set x11 clipboard"}
    ELSE {}

setWaylandClipboardLog(content, status) ==
    IF Len(content) > maxClipboardSize
    THEN {"error: content exceeds max size, skipping wayland sync"}
    ELSE IF status = "timeout" THEN {"warning: wl-copy timeout"}
    ELSE IF status = "exit" THEN {"warning: failed to set wayland clipboard"}
    ELSE {}

\* The messages of the calls a direction of the cycle added to the locals.
DirectionLog(before, after, status) ==
    IF Len(after.calls) = Len(before.calls) THEN {}
    ELSE LET call == after.calls[Len(after.calls)]
         IN IF call.to = "x11"
            THEN {">> wayland -> vmware"}
                    \cup setX11ClipboardLog(call.content, status)
            ELSE {"<< vmware -> wayland"}
                    \cup setWaylandClipboardLog(call.content, status)

----------------------------------------------------------------------------
(* The loop of start.  No other program touches the clipboards here, so a  *)
(* cycle is executed in four steps, one for each wait on an external tool  *)
(* (the read of Wayland, the read of X11, the Wayland direction, the X11   *)
(* direction), and ticks and signals arrive between any two of them.       *)
(* Signals are delivered from the moment start has registered sigChan.     *)

\* Capacity of ticker.C (time.NewTicker) and of sigChan (make(chan os.Signal, 1)).
TickerBuffer == 1

SignalBuffer == 1

\* The positions at which the ticker runs and sigChan is registered.
LoopPositions == {"select", "getWayland", "getX11", "wayland", "x11"}

\* The configurations the loop is started with: the size limit is the
\* model's maxClipboardSize, and the interval is the default one or the 0 of
\* a configuration file that does not set sync.interval_ms.
LoopConfigs ==
    {[getDefaultConfig EXCEPT !.max_clipboard_size = maxClipboardSize,
                              !.interval_ms = i,
                              !.enable_logging = e, !.verbose = v,
                              !.log_file = f] :
        i \in {getDefaultConfig.interval_ms, ZeroConfig.interval_ms},
        e \in BOOLEAN, v \in BOOLEAN, f \in {"", DefaultLogFile}}

\* The contents the clipboards hold when the loop starts.
LoopContents == {<<>>, <<"a">>, <<"b">>}

\* main has constructed the manager and calls start.
InitLoop ==
    /\ wl \in LoopContents
    /\ x11 \in LoopContents
    /\ lastWaylandHash = ZeroString
    /\ lastX11Hash = ZeroString
    /\ cur = NoCycle
    /\ prev = NoPrev
    /\ startup = NoStartup("pending")
    /\ ext = {}
    /\ unseen = Endpoints
    /\ stable = FALSE
    /\ target = <<>>
    /\ rd = NoRead
    /\ pc = "start"
    /\ exitCode = NoExit
    /\ env = <<>>
    /\ config \in LoopConfigs
    /\ manager = NewClipboardManager(config, TRUE, TRUE).manager
    /\ lines = {}
    /\ ticks = 0
    /\ sigs = 0
    /\ running = 0
    /\ locals = NoLocals
    /\ logClosed = FALSE
    /\ hist = NoHist
    /\ NoVariants

\* start up to the loop.  time.NewTicker panics when the interval is not
\* positive, and the process ends with the exit status 2 of a Go panic before
\* anything is logged; else the ticker is created, sigChan registered, and
\* the start of the sync logged.
Start ==
    /\ pc = "start"
    /\ IF manager.syncInterval <= 0
       THEN /\ pc' = "exited"
            /\ exitCode' = {2}
            /\ lines' = lines
       ELSE /\ pc' = "select"
            /\ exitCode' = exitCode
            /\ lines' = logf(manager, logClosed, {"clipboard sync started"})
    /\ UNCHANGED <<wl, x11, lastWaylandHash, lastX11Hash, env, config,
                   manager, ticks, sigs, running, locals, logClosed, hist>>
    /\ UNCHANGED engineHist
    /\ UNCHANGED variantVars

\* The loop waits in select with both channels empty.
Blocked == pc = "select" /\ ticks = 0 /\ sigs = 0

\* case <-ticker.C: a cycle begins.
BeginCycle ==
    /\ pc' = "getWayland"
    /\ running' = running + 1
    /\ hist' = [hist EXCEPT !.late = @ \/ hist.delivered]
    /\ lines' = {}
    /\ UNCHANGED <<wl, x11, lastWaylandHash, lastX11Hash, exitCode, env, config,
                   manager, sigs, locals, logClosed>>

\* case <-sigChan: the stop is logged, a log file is closed, start returns
\* and main with it.  When Close returns an error, the warning about it is
\* passed to logf after the file has been closed.
Shutdown(closeOK) ==
    /\ pc' = "exited"
    /\ exitCode' = {0}
    /\ lines' = logf(manager, logClosed, {"clipboard sync stopped"})
                    \cup IF manager.logWriter # "stdout" /\ ~closeOK
                         THEN logf(manager, TRUE,
                                   {"warning: error closing log file"})
                         ELSE {}
    /\ logClosed' = (manager.logWriter # "stdout")
    /\ UNCHANGED <<wl, x11, lastWaylandHash, lastX11Hash, env, config, manager,
                   ticks, running, locals>>

\* The ticker with no room left in ticker.C, which keeps every tick.
TickerFires_KeepsEveryTick ==
    /\ pc \in LoopPositions
    /\ IF Blocked
       THEN BeginCycle /\ UNCHANGED ticks
       ELSE /\ ticks <= TickerBuffer
            /\ ticks' = ticks + 1
            /\ UNCHANGED <<wl, x11, lastWaylandHash, lastX11Hash, pc, exitCode,
                           env, config, manager, lines, sigs, running, locals,
                           logClosed, hist>>
    /\ UNCHANGED engineHist
    /\ UNCHANGED variantVars

\* The ticker fires.  A loop waiting in select takes the tick at once; else
\* the tick is buffered in ticker.C, and dropped when ticker.C is full.
TickerFires ==
    /\ pc \in LoopPositions
    /\ IF Blocked
       THEN BeginCycle /\ UNCHANGED ticks
       ELSE /\ ticks' = Min(ticks + 1, TickerBuffer)
            /\ UNCHANGED <<wl, x11, lastWaylandHash, lastX11Hash, pc, exitCode,
                           env, config, manager, lines, sigs, running, locals,
                           logClosed, hist>>
    /\ UNCHANGED engineHist
    /\ UNCHANGED variantVars

\* SIGINT or SIGTERM is delivered.  A loop waiting in select takes the signal
\* at once; else the signal is buffered in sigChan, and dropped when sigChan
\* is full.
SignalArrives ==
    /\ pc \in LoopPositions
    /\ IF Blocked
       THEN /\ \E closeOK \in BOOLEAN : Shutdown(closeOK)
            /\ hist' = [hist EXCEPT !.delivered = TRUE]
            /\ UNCHANGED sigs
       ELSE /\ sigs' = Min(sigs + 1, SignalBuffer)
            /\ hist' = [hist EXCEPT !.delivered = TRUE,
                                    !.inFlight = @ \/ running > 0]
            /\ UNCHANGED <<wl, x11, lastWaylandHash, lastX11Hash, pc, exitCode,
                           env, config, manager, lines, ticks, running, locals,
                           logClosed>>
    /\ UNCHANGED engineHist
    /\ UNCHANGED variantVars

\* select with a tick buffered takes the tick.
SelectTick ==
    /\ pc = "select"
    /\ ticks > 0
    /\ ticks' = ticks - 1
    /\ BeginCycle
    /\ UNCHANGED engineHist
    /\ UNCHANGED variantVars

\* select that takes a buffered signal only when no tick is buffered.
SelectSignal_TickFirst ==
    /\ pc = "select"
    /\ sigs > 0
    /\ ticks = 0
    /\ sigs' = sigs - 1
    /\ \E closeOK \in BOOLEAN : Shutdown(closeOK)
    /\ UNCHANGED hist
    /\ UNCHANGED engineHist
    /\ UNCHANGED variantVars

\* select with a signal buffered takes the signal.
SelectSignal ==
    /\ pc = "select"
    /\ sigs > 0
    /\ sigs' = sigs - 1
    /\ \E closeOK \in BOOLEAN : Shutdown(closeOK)
    /\ UNCHANGED hist
    /\ UNCHANGED engineHist
    /\ UNCHANGED variantVars

\* syncClipboards, line 200: getWaylandClipboard runs wl-paste and the cycle
\* holds waylandContent.
CycleGetWayland ==
    /\ pc = "getWayland"
    /\ \E status \in ReadStatuses :
          /\ locals' = AfterWaylandRead(lastWaylandHash, lastX11Hash,
                                        wlPaste(wl, status))
          /\ lines' = logf(manager, logClosed,
                           getWaylandClipboardLog(wlPaste(wl, status)))
    /\ pc' = "getX11"
    /\ UNCHANGED <<wl, x11, lastWaylandHash, lastX11Hash, exitCode, env, config,
                   manager, ticks, sigs, running, logClosed, hist>>
    /\ UNCHANGED engineHist
    /\ UNCHANGED variantVars

\* syncClipboards, lines 201 to 204: getX11Clipboard runs xclip -o and the two
\* digests are computed.
CycleGetX11 ==
    /\ pc = "getX11"
    /\ \E status \in ReadStatuses :
          /\ locals' = AfterX11Read(locals, xclipOut(x11, status))
          /\ lines' = logf(manager, logClosed,
                           getX11ClipboardLog(xclipOut(x11, status)))
    /\ pc' = "wayland"
    /\ UNCHANGED <<wl, x11, lastWaylandHash, lastX11Hash, exitCode, env, config,
                   manager, ticks, sigs, running, logClosed, hist>>
    /\ UNCHANGED engineHist
    /\ UNCHANGED variantVars

\* syncClipboards, "Sync Wayland -> X11 (if Wayland changed)".
CycleWaylandToX11 ==
    /\ pc = "wayland"
    /\ \E status \in WriteStatuses :
          LET s == SyncWaylandToX11(locals, status)
          IN /\ s.calls = <<>> => status = "ok"
             /\ locals' = s
             /\ lastWaylandHash' = s.lastWaylandHash
             /\ lastX11Hash' = s.lastX11Hash
             /\ x11' = Deliver(s.calls, "x11", x11)
             /\ lines' = logf(manager, logClosed, DirectionLog(locals, s, status))
    /\ pc' = "x11"
    /\ UNCHANGED <<wl, exitCode, env, config, manager, ticks, sigs, running,
                   logClosed, hist>>
    /\ UNCHANGED engineHist
    /\ UNCHANGED variantVars

\* syncClipboards, "Sync X11 -> Wayland (if X11 changed)", and the return to
\* the loop.
CycleX11ToWayland ==
    /\ pc = "x11"
    /\ \E status \in WriteStatuses :
          LET s == SyncX11ToWayland(locals, status)
          IN /\ Len(s.calls) = Len(locals.calls) => status = "ok"
             /\ lastWaylandHash' = s.lastWaylandHash
             /\ lastX11Hash' = s.lastX11Hash
             /\ wl' = Deliver(s.calls, "wayland", wl)
             /\ lines' = logf(manager, logClosed, DirectionLog(locals, s, status))
    /\ locals' = NoLocals
    /\ running' = running - 1
    /\ pc' = "select"
    /\ UNCHANGED <<x11, exitCode, env, config, manager, ticks, sigs, logClosed,
                   hist>>
    /\ UNCHANGED engineHist
    /\ UNCHANGED variantVars

NextLoop ==
    \/ Start
    \/ TickerFires
    \/ SignalArrives
    \/ SelectTick
    \/ SelectSignal
    \/ CycleGetWayland
    \/ CycleGetX11
    \/ CycleWaylandToX11
    \/ CycleX11ToWayland

LoopSpec == InitLoop /\ [][NextLoop]_vars

\* A cycle in execution takes its next step, every external tool being bounded
\* by the command timeout; select chooses among the ready channels at random,
\* so a signal that is buffered again and again is taken in the end.
LoopLiveSpec ==
    /\ InitLoop
    /\ [][NextLoop]_vars
    /\ WF_vars(CycleGetWayland)
    /\ WF_vars(CycleGetX11)
    /\ WF_vars(CycleWaylandToX11)
    /\ WF_vars(CycleX11ToWayland)
    /\ SF_vars(SelectSignal)

----------------------------------------------------------------------------
(* Claims about the loop of start.                                         *)

\* C12: once a termination signal has been delivered to the loop of start,
\* no new cycle begins (at most the cycle in flight at the delivery runs to
\* completion, also when a tick is buffered at that moment), and a file-backed
\* log is closed only when no cycle is in execution and the loop is left.
C12_StopAfterCurrentCycle ==
    /\ hist.delivered => ~hist.late
    /\ logClosed => (running = 0 /\ pc = "exited")

\* The part of C12 about the log: the log file is closed only when no cycle
\* is in execution and the loop is left.
C12_LogClosedAfterCycle == logClosed => (running = 0 /\ pc = "exited")

\* C13: after a termination signal is delivered the loop is eventually left
\* and start returns (select being fair to the buffered signal), and whenever
\* the loop is left no cycle is in execution: a cycle that was in progress
\* when the signal arrived has run both direction checks.
C13_ShutdownReached ==
    /\ [](pc = "exited" => (running = 0 /\ locals = NoLocals))
    /\ (hist.delivered ~> pc = "exited")

\* C13 witness: a signal arrived while a cycle was in execution, and start
\* has returned.
C13_Witness == pc = "exited" /\ hist.inFlight /\ running = 0

----------------------------------------------------------------------------
(* main up to the loop of start: the lookup of the tools, LoadConfig,      *)
(* NewClipboardManager and the call of start.  env is what main finds: the *)
(* tools on PATH, the configuration files (for each path whether a file is *)
(* present and the Config it decodes to), whether the file found parses,   *)
(* and whether the log directory can be created and the log file opened.   *)

RequiredTools == {"wl-paste", "wl-copy", "xclip"}

\* The path of the configuration file that README.md names.
ReadmeConfigPath == "$HOME/.config/vmware-wayland-clipboard-bridge/config.toml"

\* configPaths of LoadConfig, in the order it tries them.
configPaths ==
    <<"$HOME/.config/vmware-sway-sync/config.toml",
      "$HOME/.vmware-sway-sync.toml",
      "/etc/vmware-sway-sync/config.toml">>

AllConfigPaths ==
    {ReadmeConfigPath} \cup {configPaths[i] : i \in 1..Len(configPaths)}

\* The configuration files a user writes.  Two set every key and differ from
\* each other and from the defaults in command_timeout, max_clipboard_size
\* and interval_ms.  The third is the [timeouts] table of the tips of
\* README.md on its own: LoadConfig decodes a file into Config{}, so the keys
\* the file leaves out keep their zero values.
FileConfigs ==
    {[command_timeout |-> 5, max_clipboard_size |-> 104857600,
      interval_ms |-> 200, enable_logging |-> TRUE, verbose |-> FALSE,
      log_file |-> ""],
     [command_timeout |-> 1, max_clipboard_size |-> 10,
      interval_ms |-> 1000, enable_logging |-> FALSE, verbose |-> TRUE,
      log_file |-> DefaultLogFile],
     [ZeroConfig EXCEPT !.command_timeout = 5,
                        !.max_clipboard_size = 104857600]}

\* LoadConfig: the first of configPaths that exists is decoded; with none, the
\* defaults are returned.
LoadConfig(e) ==
    LET found == {i \in 1..Len(configPaths) : e.files[configPaths[i]].present}
    IN IF found # {}
       THEN LET first == CHOOSE i \in found : \A j \in found : i <= j
            IN IF e.parses
               THEN [config |-> e.files[configPaths[first]].config,
                     err |-> "nil"]
               ELSE [config |-> ZeroConfig, err |-> "failed to parse config"]
       ELSE [config |-> getDefaultConfig, err |-> "nil"]

\* No file, or a file with one of the configurations.
FileEntries ==
    {[present |-> FALSE, config |-> ZeroConfig]}
       \cup {[present |-> TRUE, config |-> c] : c \in FileConfigs}

Environments ==
    [tools : SUBSET RequiredTools,
     files : [AllConfigPaths -> FileEntries],
     parses : BOOLEAN,
     mkdirOK : BOOLEAN,
     openOK : BOOLEAN]

\* The process is launched.
InitStartup ==
    /\ wl = <<>>
    /\ x11 = <<>>
    /\ lastWaylandHash = ZeroString
    /\ lastX11Hash = ZeroString
    /\ cur = NoCycle
    /\ prev = NoPrev
    /\ startup = NoStartup("pending")
    /\ ext = {}
    /\ unseen = Endpoints
    /\ stable = FALSE
    /\ target = <<>>
    /\ rd = NoRead
    /\ pc = "main"
    /\ exitCode = NoExit
    /\ env \in Environments
    /\ config = <<>>
    /\ manager = NoManager
    /\ lines = {}
    /\ ticks = 0
    /\ sigs = 0
    /\ running = 0
    /\ locals = NoLocals
    /\ logClosed = FALSE
    /\ hist = NoHist
    /\ NoVariants

\* What main leaves alone before it calls start.
startupFrame ==
    <<wl, x11, lastWaylandHash, lastX11Hash, env, lines, ticks, sigs, running,
      locals, logClosed, hist>>

\* main: exec.LookPath for each tool, os.Exit(1) when one is not found.
LookupTools ==
    /\ pc = "main"
    /\ IF RequiredTools \subseteq env.tools
       THEN pc' = "load" /\ exitCode' = exitCode
       ELSE pc' = "exited" /\ exitCode' = {1}
    /\ UNCHANGED <<config, manager>>
    /\ UNCHANGED startupFrame
    /\ UNCHANGED engineHist
    /\ UNCHANGED variantVars

\* main: LoadConfig, and the defaults when it returns an error.
LoadConfiguration ==
    /\ pc = "load"
    /\ config' = IF LoadConfig(env).err # "nil" THEN getDefaultConfig
                 ELSE LoadConfig(env).config
    /\ pc' = "construct"
    /\ UNCHANGED <<exitCode, manager>>
    /\ UNCHANGED startupFrame
    /\ UNCHANGED engineHist
    /\ UNCHANGED variantVars

\* main: NewClipboardManager, os.Exit(1) when it returns an error; else start
\* is called.
ConstructManager ==
    /\ pc = "construct"
    /\ LET r == NewClipboardManager(config, env.mkdirOK, env.openOK)
       IN IF r.err # "nil"
          THEN pc' = "exited" /\ exitCode' = {1} /\ manager' = manager
          ELSE pc' = "start" /\ exitCode' = exitCode /\ manager' = r.manager
    /\ UNCHANGED config
    /\ UNCHANGED startupFrame
    /\ UNCHANGED engineHist
    /\ UNCHANGED variantVars

NextStartup ==
    \/ LookupTools
    \/ LoadConfiguration
    \/ ConstructManager
    \/ Start

StartupSpec == InitStartup /\ [][NextStartup]_vars

----------------------------------------------------------------------------
(* Claims about main, the configuration and the logger.                    *)

\* C14: the process exits with a non-zero status if one of wl-paste, wl-copy
\* and xclip cannot be located, and in every other case it does not exit
\* before it is signaled, and then with status 0: an exit with a non-zero
\* status happens only when a tool is missing.
C14_ProcessExit ==
    /\ (pc # "main" /\ ~(RequiredTools \subseteq env.tools))
          => (pc = "exited" /\ exitCode = {1})
    /\ (RequiredTools \subseteq env.tools) => exitCode \subseteq {0}

\* The part of C14 about missing tools: with a tool missing the process
\* exits with status 1 in the first step of main.
C14_MissingToolExits ==
    (pc # "main" /\ ~(RequiredTools \subseteq env.tools))
       => (pc = "exited" /\ exitCode = {1})

\* A configuration file is present at the path README.md names and parses.
ReadmeFilePresent == env.files[ReadmeConfigPath].present /\ env.parses

\* The manager has the command_timeout, max_clipboard_size and interval_ms of
\* the configuration c.
RunsWith(c) ==
    /\ manager.commandTimeout = c.command_timeout
    /\ manager.maxClipboardSize = c.max_clipboard_size
    /\ manager.syncInterval = c.interval_ms

\* C16: when a configuration file exists at
\* ~/.config/vmware-wayland-clipboard-bridge/config.toml, the engine that main
\* starts runs with the command_timeout, max_clipboard_size and interval_ms of
\* that file.
C16_ConfigFileLocation ==
    (pc = "start" /\ ReadmeFilePresent)
       => RunsWith(env.files[ReadmeConfigPath].config)

\* The file that LoadConfig does read: when a file that parses is present at
\* the first of configPaths, the engine runs with the values of that file.
C16_FirstOfConfigPaths ==
    (pc = "start" /\ env.files[configPaths[1]].present /\ env.parses)
       => RunsWith(env.files[configPaths[1]].config)

\* The lines syncClipboards and the adapters print: the two direction lines
\* and the warnings and errors.
SyncLines ==
    {">> wayland -> vmware", "<< vmware -> wayland"}
       \cup UNION {getWaylandClipboardLog(r) \cup getX11ClipboardLog(r) :
                      r \in AllRuns}
       \cup UNION {setX11ClipboardLog(c, st) \cup setWaylandClipboardLog(c, st) :
                      c \in ToolOutputs, st \in WriteStatuses}

\* C15: with sync.enable_logging false the engine prints no sync log line,
\* whatever logging.verbose is; with sync.enable_logging true the line of a
\* push from Wayland to X11 is printed when the cycle makes that push.
C15_LoggingGate ==
    /\ ~config.enable_logging => lines \cap SyncLines = {}
    /\ (config.enable_logging /\ pc = "x11" /\ locals.calls # <<>>)
          => ">> wayland -> vmware" \in lines

\* The gate the code has: the same statement with logging.verbose in the
\* place of sync.enable_logging.
C15_GateIsVerbose ==
    /\ ~config.verbose => lines = {}
    /\ (config.verbose /\ pc = "x11" /\ locals.calls # <<>>)
          => ">> wayland -> vmware" \in lines

\* C17: at every moment at most one cycle of syncClipboards is in execution,
\* also when a cycle lasts longer than the poll interval: a tick that arrives
\* during a cycle starts no second cycle, at most one tick is left pending in
\* ticker.C, and while a cycle is in execution the loop is inside it.
C17_CyclesNeverOverlap ==
    /\ running <= 1
    /\ ticks <= 1
    /\ running = 1 <=> pc \in {"getWayland", "getX11", "wayland", "x11"}
    /\ locals # NoLocals => running = 1

\* C17 witness: a cycle is in execution, past its reads, and a tick that
\* arrived during the cycle is pending.
C17_Witness == running = 1 /\ pc = "x11" /\ ticks = 1


----------------------------------------------------------------------------
(* The fixed-constant variant of the daemon (the second main of            *)
(* src/main.go) beside the configuration-driven one.  Both are fed the     *)
(* outputs of the reading tools of one cycle after the other; the fixed    *)
(* variant takes them as they are, the configuration-driven one through    *)
(* its read adapters.  Every write succeeds.                               *)

\* MaxTextSize of the fixed-constant variant, scaled down (1024 * 1024).
MaxTextSize == 1

\* The locals of the loop body of the fixed variant after the two reads.
FixedAfterReads(lastW, lastX, w, x) ==
    [lastWayland |-> lastW, lastX11 |-> lastX,
     currentWayland |-> w, currentX11 |-> x, calls |-> <<>>]

\* Case A without the assignment to currentX11 after the push.
CaseA_KeepsCurrentX11(s) ==
    IF Len(s.currentWayland) > 0 /\ s.currentWayland # s.lastWayland
    THEN IF s.currentWayland # s.currentX11
         THEN [s EXCEPT
                 !.calls = Append(@, [to |-> "x11",
                                      content |-> s.currentWayland]),
                 !.lastX11 = s.currentWayland,
                 !.lastWayland = s.currentWayland]
         ELSE [s EXCEPT !.lastWayland = s.currentWayland]
    ELSE s

\* "Case A: Wayland Changed (You copied in Sway) -> Push to X11 (VMware)"
CaseA(s) ==
    IF Len(s.currentWayland) > 0 /\ s.currentWayland # s.lastWayland
    THEN IF s.currentWayland # s.currentX11
         THEN [s EXCEPT
                 !.calls = Append(@, [to |-> "x11",
                                      content |-> s.currentWayland]),
                 !.lastX11 = s.currentWayland,
                 !.currentX11 = s.currentWayland,
                 !.lastWayland = s.currentWayland]
         ELSE [s EXCEPT !.lastWayland = s.currentWayland]
    ELSE s

\* "Case B: X11 Changed (You copied in Windows Host) -> Push to Wayland"
CaseB(s) ==
    IF Len(s.currentX11) > 0 /\ s.currentX11 # s.lastX11
    THEN IF s.currentX11 # s.currentWayland
         THEN [s EXCEPT
                 !.calls = Append(@, [to |-> "wayland",
                                      content |-> s.currentX11]),
                 !.lastWayland = s.currentX11,
                 !.currentWayland = s.currentX11,
                 !.lastX11 = s.currentX11]
         ELSE [s EXCEPT !.lastX11 = s.currentX11]
    ELSE s

\* One pass of the loop body of the fixed variant's main on the two read
\* results.
FixedLoopBody(lastW, lastX, w, x) ==
    CaseB(CaseA(FixedAfterReads(lastW, lastX, w, x)))

\* The writes of a cycle: direction and content of each call, in order.
Writes(calls) ==
    [i \in 1..Len(calls) |-> [to |-> calls[i].to, content |-> calls[i].content]]

\* Both daemons are started.
InitVariants ==
    /\ wl = <<>>
    /\ x11 = <<>>
    /\ lastWaylandHash = ZeroString
    /\ lastX11Hash = ZeroString
    /\ cur = NoCycle
    /\ prev = NoPrev
    /\ startup = NoStartup("pending")
    /\ ext = {}
    /\ unseen = Endpoints
    /\ stable = FALSE
    /\ target = <<>>
    /\ rd = NoRead
    /\ pc = "select"
    /\ locals = NoLocals
    /\ NoProcess

\* One cycle of both variants on the outputs w and x of the reading tools:
\* the loop body of the fixed variant, and syncClipboards with tools that
\* succeed.  same records that so far both variants were fed the same read
\* results, the read adapters having returned the outputs as they are.
FeedCycle(w, x) ==
    LET f == FixedLoopBody(lastWayland, lastX11, w, x)
        c == syncClipboards(lastWaylandHash, lastX11Hash,
                            [status |-> "ok", out |-> w],
                            [status |-> "ok", out |-> x], "ok", "ok")
    IN /\ lastWayland' = f.lastWayland
       /\ lastX11' = f.lastX11
       /\ lastWaylandHash' = c.lastWaylandHash
       /\ lastX11Hash' = c.lastX11Hash
       /\ fed' = [w |-> w, x |-> x,
                  same |-> (/\ fed.same
                            /\ c.waylandContent = w
                            /\ c.x11Content = x)]
       /\ issued' = [fixed |-> Writes(f.calls), config |-> Writes(c.calls)]
       /\ UNCHANGED <<wl, x11, pc, locals>>
       /\ UNCHANGED engineHist
       /\ UNCHANGED procVars

\* What the reading tools print in a cycle: a content, as it is or with the
\* newline wl-paste appends.
FedOutputs == Contents \cup {Append(c, Newline) : c \in Contents}

NextVariants == \E w \in FedOutputs, x \in FedOutputs : FeedCycle(w, x)

VariantSpec == InitVariants /\ [][NextVariants]_vars

----------------------------------------------------------------------------
(* Claims about the fixed-constant variant.                                *)

\* C21: fed the same sequence of read results, cycle by cycle (contents
\* within the size limit, every write succeeding), the loop of the fixed
\* variant, which compares bytes with lastWayland and lastX11, and
\* syncClipboards, which compares digests with lastWaylandHash and
\* lastX11Hash, make the same writes in every cycle: same direction, same
\* content.
C21_VariantsDecideAlike == fed.same => issued.fixed = issued.config

\* What the fixed variant remembers is what the digests of the other stand
\* for: the reason C21 holds from one cycle to the next.
C21_StatesCorrespond ==
    fed.same
       => /\ lastWaylandHash = IF lastWayland = <<>> THEN ZeroString
                               ELSE hash(lastWayland)
          /\ lastX11Hash = IF lastX11 = <<>> THEN ZeroString
                           ELSE hash(lastX11)

\* C21 witness: both variants were fed the same read results throughout, the
\* last cycle read a content from X11 that both had not seen, Wayland being
\* as both remember it, and both pushed it to Wayland.
C21_Witness ==
    /\ fed.same
    /\ fed.w # <<>> /\ fed.x # <<>> /\ fed.w # fed.x
    /\ issued.fixed = <<[to |-> "wayland", content |-> fed.x]>>
    /\ issued.config = <<[to |-> "wayland", content |-> fed.x]>>

\* C22: the loop of the fixed variant never passes content longer than
\* MaxTextSize to setX11Clipboard or setWaylandClipboard.
C22_FixedVariantSizeLimit ==
    \A i \in 1..Len(issued.fixed) : Len(issued.fixed[i].content) <= MaxTextSize

====
